---- MODULE Spec2Model ----
(***************************************************************************)
(* Entity Data API (src/main.py): a CRUD HTTP service over the table       *)
(* entity_data of a remote record store, with a folder-name derivation and *)
(* an image-upload workflow on the local filesystem.                       *)
(*                                                                         *)
(* State: the table (store), the image directories (disk), the wall clock  *)
(* read by datetime.utcnow() (now), the in-flight batch job of the worker  *)
(* thread (job), the "async def" handlers the event loop has started and    *)
(* not finished (loop), and a history record of the last step (last).      *)
(*                                                                         *)
(* Representation.                                                         *)
(*  - A string is a sequence of one-character strings, so that lower(),    *)
(*    split() and the prefix match are computed, not assumed.              *)
(*  - An Optional value is None (<<>>) or Some(v) (<<v>>).                 *)
(*  - A filename is [stem, sfx]: "photo.jpg" is [stem |-> "photo",         *)
(*    sfx |-> <<>>], "photo_1.jpg" is sfx <<1>>, "photo_1_1.jpg" is        *)
(*    sfx <<1, 1>>; the extension is kept by the code and left out here.   *)
(*  - The JSON list images is a multiset: a function from filename to its  *)
(*    number of occurrences (the order of the list is read nowhere).       *)
(*  - The clock: a utcnow() reading is greater than every reading that     *)
(*    reached the table before it (a request makes a round trip to the     *)
(*    store between two readings). Time is counted in the readings the     *)
(*    table took: now is the last of them, and a reading that is thrown    *)
(*    away with a rejected insert leaves no trace. The two readings of     *)
(*    create_entity, microseconds apart, are one instant.                  *)
(*  - The store returns rows in insertion order (the code asks for none).  *)
(***************************************************************************)
EXTENDS Integers, Sequences, FiniteSets, TLC

VARIABLES store, disk, now, job, loop, last

vars == <<store, disk, now, job, loop, last>>

\* ------------------------------------------------------------ bounds
MaxEntities == 2
MaxClock == 3
MaxFiles == 2
MaxDisk == 2
MaxPage == 2
MaxTake == 2
MaxInFlight == 2

\* ------------------------------------------------- program constants
\* Query(1, ge=1): the least page.
PageMin == 1
\* Query(10, ge=1, le=100): the least and the greatest take.
TakeMin == 1
TakeMax == 100

\* ------------------------------------------------------------ values
None == <<>>
Some(v) == <<v>>

\* Python truthiness of an optional string: None and "" are falsy.
Truthy(o) == o # None /\ o[1] # <<>>

Min(a, b) == IF a <= b THEN a ELSE b

SeqRange(s) == {s[i] : i \in DOMAIN s}

\* str.lower() on the characters the inputs use.
LowerChar(c) ==
    CASE c = "J" -> "j"
      [] c = "M" -> "m"
      [] c = "X" -> "x"
      [] OTHER -> c

lower(s) == [i \in DOMAIN s |-> LowerChar(s[i])]

\* "".join(s.split()): s without its whitespace.
JoinSplit(s) == SelectSeq(s, LAMBDA c : c # " ")

\* s.split(',')[0]: s up to its first comma.
SplitComma0(s) ==
    LET commas == {i \in DOMAIN s : s[i] = ","}
    IN  IF commas = {} THEN s
        ELSE SubSeq(s, 1, (CHOOSE i \in commas : \A j \in commas : i <= j) - 1)

\* name_part = "".join(name.lower().split());
\* address_part = "".join(address.lower().split(',')[0].split());
\* folder_name = f"{name_part}_{address_part}"
FolderName(name, address) ==
    JoinSplit(lower(name)) \o <<"_">> \o JoinSplit(SplitComma0(lower(address)))

\* ------------------------------------------------------------ images
ImageSet(b) == DOMAIN b
HasDuplicates(b) == \E f \in DOMAIN b : b[f] > 1
\* list(set(xs)): every element once.
ListOfSet(S) == [f \in S |-> 1]

\* ------------------------------------------------------------- store
\* .select("*").eq(field, v): the rows whose field is v, in table order.
SelectEq(st, field, v) == SelectSeq(st, LAMBDA r : r[field] = v)

\* .update(payload).eq(field, v): payload's columns overwritten in every
\* matching row, the others kept.
UpdateEq(st, field, v, payload) ==
    [i \in DOMAIN st |->
        IF st[i][field] = v
        THEN [c \in DOMAIN st[i] |->
                 IF c \in DOMAIN payload THEN payload[c] ELSE st[i][c]]
        ELSE st[i]]

\* .insert(payload): the table keeps place_id unique and rejects a second
\* row with a place_id it holds; an accepted row gets the next id.
InsertAccepted(st, payload) ==
    \A i \in DOMAIN st : st[i].place_id # payload.place_id

InsertRow(st, payload) ==
    Append(st, [c \in DOMAIN payload \cup {"id"} |->
                   IF c = "id" THEN Len(st) + 1 ELSE payload[c]])

\* .range(start, end): offset start, limit end - start + 1; the store
\* rejects a negative offset or limit.
RangeAccepted(start, end) == start >= 0 /\ end - start + 1 >= 0

RangeRows(rows, start, end) == SubSeq(rows, start + 1, Min(end + 1, Len(rows)))

\* limit = take; start = (page - 1) * limit; end = start + limit - 1
WindowStart(page, take) == (page - 1) * take
WindowEnd(page, take) == WindowStart(page, take) + take - 1

\* ------------------------------------------------------------ inputs
NameJoe == <<"J", " ", "o">>
AddrMain == <<"M", " ", "s", ",", "X">>
FolderCustom == <<"c">>

Photo == [stem |-> "photo", sfx |-> <<>>]
Notes == [stem |-> "notes", sfx |-> <<>>]

PlaceIds == 1 .. MaxEntities
Ids == 1 .. MaxEntities

\* The body of POST /entity (EntityData) that the requests carry: place_id,
\* name, address and images, the optional fields left out (rating stands
\* for reviews, rating and the optional strings).
CreateInputs ==
    {e \in [place_id : PlaceIds,
            name : {<<>>, NameJoe},
            address : {None, Some(AddrMain)},
            images : {ListOfSet({}), (Photo :> 2)},
            rating : {None},
            created_at : {None}] :
        e.name # <<>> \/ e.address # None}

\* The same bodies with and without a rating, and with one file at most in
\* images, for the tables the listings read.
RatedInputs ==
    {e \in [place_id : PlaceIds,
            name : {<<>>, NameJoe},
            address : {Some(AddrMain)},
            images : {ListOfSet({}), ListOfSet({Photo})},
            rating : {None, Some(4)},
            created_at : {None}] : TRUE}

PatchFields == {"name", "address", "rating", "uploaded_image", "images", "folder_name"}

NoPatch ==
    [name |-> None, address |-> None, rating |-> None, uploaded_image |-> None,
     images |-> None, folder_name |-> None]

\* The body of PUT /entity/... (EntityDataUpdate): None is a field left out.
Patches ==
    {[NoPatch EXCEPT !.rating = Some(4)],
     [NoPatch EXCEPT !.images = Some(Notes :> 2)],
     [NoPatch EXCEPT !.images = Some(ListOfSet({}))],
     [NoPatch EXCEPT !.folder_name = Some(FolderCustom)]}

UploadFiles ==
    {[filename |-> Photo, content_type |-> "image/png"],
     [filename |-> Notes, content_type |-> "text/plain"]}

FileLists == UNION {[1 .. n -> UploadFiles] : n \in 1 .. MaxFiles}

Pages == 0 .. MaxPage
Takes == (0 .. MaxTake) \cup {TakeMax + 1}

\* ------------------------------------------------------------- state
Idle == [pc |-> "idle", page |-> 0, take |-> 0, data |-> <<>>, k |-> 0, out |-> <<>>]

\* An "async def" handler runs on the event loop, and the handlers of this
\* program hold no await: the loop starts one only when none is in flight.
\* The fault: handlers started whatever is in flight (as plain "def" ones,
\* in worker threads).
LoopShared == TRUE

LoopFree == loop = <<>>

Record(op, field, key, status, calls) ==
    [op |-> op, field |-> field, key |-> key, page |-> 0, take |-> 0,
     status |-> status, calls |-> calls, pre |-> store, preDisk |-> disk,
     patch |-> NoPatch, files |-> <<>>, stored |-> <<>>, result |-> <<>>,
     accepted |-> FALSE, name |-> None, checkimages |-> None]

Init ==
    /\ store = <<>>
    /\ disk = {}
    /\ now = 0
    /\ job = Idle
    /\ loop = <<>>
    /\ last = [op |-> "init", field |-> "", key |-> 0, page |-> 0, take |-> 0,
               status |-> 0, calls |-> 0, pre |-> <<>>, preDisk |-> {},
               patch |-> NoPatch, files |-> <<>>, stored |-> <<>>,
               result |-> <<>>, accepted |-> FALSE, name |-> None,
               checkimages |-> None]

\* The response_model EntityDataResponse: reviews: int and rating: float
\* are required, so a row whose rating is null fails the response validation.
ResponseValid(row) == row.rating # None


\* The status a handler's try/except surfaces for an HTTPException(code)
\* raised in its body: create_entity and get_entity have only
\* "except Exception", which catches it and raises 500; the other handlers
\* re-raise it ("except HTTPException: raise").
Surfaced(op, code) ==
    IF op \in {"create_entity", "get_entity"} THEN 500 ELSE code

\* ------------------------------------------------------- POST /entity
CreatePayload(e, created, updated) ==
    [place_id |-> e.place_id, name |-> Some(e.name), address |-> e.address,
     rating |-> e.rating, uploaded_image |-> Some(FALSE), images |-> Some(e.images),
     folder_name |-> None, created_at |-> created, updated_at |-> updated]

\* After an accepted insert the handler returns filtered_data[0], a name
\* that is not defined in create_entity: NameError, caught by
\* "except Exception" and raised as 500. A rejected insert raises in
\* execute() and is caught by the same clause.
CreateStatus(accepted) == 500

create_entity(e) ==
    LET t == now + 1
        created == IF e.created_at = None THEN t ELSE e.created_at[1]
        updated == t
        payload == CreatePayload(e, created, updated)
        accepted == InsertAccepted(store, payload)
    IN  /\ LoopFree
        /\ t <= MaxClock
        /\ now' = IF accepted THEN t ELSE now
        /\ store' = IF accepted THEN InsertRow(store, payload) ELSE store
        /\ last' = [Record("create_entity", "place_id", e.place_id,
                           CreateStatus(accepted), 1)
                       EXCEPT !.accepted = accepted]
        /\ UNCHANGED <<disk, job, loop>>

\* -------------------------------------------------- GET /entity/{id}
get_entity(id) ==
    LET sel == SelectEq(store, "id", id)
        status == IF sel = <<>> THEN Surfaced("get_entity", 404)
                  ELSE IF ResponseValid(sel[1]) THEN 200 ELSE 500
    IN  /\ LoopFree
        /\ last' = [Record("get_entity", "id", id, status, 1)
                       EXCEPT !.result = [i \in DOMAIN sel |-> sel[i].id]]
        /\ UNCHANGED <<store, disk, now, job, loop>>

\* ------------------------- PUT /entity/{id}, PUT /entity/place_id/{p}
\* The fault of writing the whole dump of the patch, the fields left out
\* included (as nulls).
UpdatePayloadUnfiltered(patch, t) ==
    [c \in PatchFields \cup {"updated_at"} |->
        IF c = "updated_at" THEN t ELSE patch[c]]

\* update_payload: the fields of the patch that are not None, and updated_at.
UpdatePayload(patch, t) ==
    [c \in {f \in PatchFields : patch[f] # None} \cup {"updated_at"} |->
        IF c = "updated_at" THEN t ELSE patch[c]]

UpdateEntity(op, field, key, patch) ==
    LET sel == SelectEq(store, field, key)
    IN  IF sel = <<>>
        THEN /\ last' = [Record(op, field, key, Surfaced(op, 404), 1)
                            EXCEPT !.patch = patch]
             /\ UNCHANGED <<store, disk, now, job, loop>>
        ELSE LET t == now + 1
                 st == UpdateEq(store, field, key, UpdatePayload(patch, t))
                 data == SelectEq(st, field, key)
                 status == IF data = <<>> THEN Surfaced(op, 500)
                           ELSE IF ResponseValid(data[1]) THEN 200 ELSE 500
             IN  /\ t <= MaxClock
                 /\ now' = t
                 /\ store' = st
                 /\ last' = [Record(op, field, key, status, 2)
                                EXCEPT !.patch = patch,
                                       !.result = <<sel[1].id>>]
                 /\ UNCHANGED <<disk, job, loop>>

update_entity(id, patch) ==
    LoopFree /\ UpdateEntity("update_entity", "id", id, patch)

update_entity_by_place_id(p, patch) ==
    LoopFree /\ UpdateEntity("update_entity_by_place_id", "place_id", p, patch)


\* --------- POST /entity/{id}/upload-images, /entity/place_id/{p}/...
\* file.content_type.startswith("image/")
IsImage(content_type) == content_type \in {"image/png", "image/jpeg"}

\* The files of directory folder.
DirFiles(dk, folder) == {d.file : d \in {x \in dk : x.dir = folder}}

\* The fault of taking the path as given, whether or not a file is there.
FreePathUnchecked(dir, filename, path, counter) == path

\* while os.path.exists(file_path):
\*     new_filename = f"{original_name}_{counter}{ext}"; counter += 1
RECURSIVE FreePath(_, _, _, _)
FreePath(dir, filename, path, counter) ==
    IF path \notin dir THEN path
    ELSE FreePath(dir, filename,
                  [stem |-> filename.stem, sfx |-> filename.sfx \o <<counter>>],
                  counter + 1)

\* The fault of a loop that removes what it wrote when a file is no image.
RECURSIVE SaveFilesRolledBack(_, _, _, _)
SaveFilesRolledBack(dir, files, k, names) ==
    IF k > Len(files) THEN [dir |-> dir, names |-> names, ok |-> TRUE]
    ELSE IF ~IsImage(files[k].content_type)
         THEN [dir |-> dir \ SeqRange(names), names |-> <<>>, ok |-> FALSE]
         ELSE LET path == FreePath(dir, files[k].filename, files[k].filename, 1)
              IN  SaveFilesRolledBack(dir \cup {path}, files, k + 1,
                                      Append(names, path))

\* for file in files: validate, find a free path, write, append the name.
\* ok is FALSE when file k is no image: the loop ends there by a raise.
RECURSIVE SaveFiles(_, _, _, _)
SaveFiles(dir, files, k, names) ==
    IF k > Len(files) THEN [dir |-> dir, names |-> names, ok |-> TRUE]
    ELSE IF ~IsImage(files[k].content_type)
         THEN [dir |-> dir, names |-> names, ok |-> FALSE]
         ELSE LET path == FreePath(dir, files[k].filename, files[k].filename, 1)
              IN  SaveFiles(dir \cup {path}, files, k + 1, Append(names, path))

\* updated_images = list(set(existing_images + uploaded_filenames))
MergeImages(existing, uploaded) == ListOfSet(ImageSet(existing) \cup SeqRange(uploaded))

\* The payload of the on-demand derivation (and of the batch job).
FolderPayload(entity) ==
    [folder_name |-> Some(FolderName(entity.name[1], entity.address[1]))]

\* The payload of the final update of an upload.
ImagesPayload(images, t) ==
    [images |-> Some(images), uploaded_image |-> Some(TRUE), updated_at |-> t]

UploadImages(op, field, key, files) ==
    LET sel == SelectEq(store, field, key)
    IN  IF sel = <<>>
        THEN /\ last' = [Record(op, field, key, Surfaced(op, 404), 1)
                            EXCEPT !.files = files]
             /\ UNCHANGED <<store, disk, now, job, loop>>
        ELSE
        LET entity == sel[1]
            derive == ~Truthy(entity.folder_name)
        IN  IF derive /\ (~Truthy(entity.name) \/ ~Truthy(entity.address))
            THEN /\ last' = [Record(op, field, key, Surfaced(op, 400), 1)
                                EXCEPT !.files = files]
                 /\ UNCHANGED <<store, disk, now, job, loop>>
            ELSE
            LET st1 == IF derive
                       THEN UpdateEq(store, field, key, FolderPayload(entity))
                       ELSE store
                folder == IF derive THEN FolderPayload(entity).folder_name[1]
                          ELSE entity.folder_name[1]
                dir == DirFiles(disk, folder)
                saved == SaveFiles(dir, files, 1, <<>>)
                dk == disk \cup {[dir |-> folder, file |-> f] : f \in saved.dir}
                c1 == IF derive THEN 2 ELSE 1
            IN  /\ Cardinality(disk) + Len(files) <= MaxDisk
                /\ disk' = dk
                /\ IF ~saved.ok
                   THEN /\ store' = st1
                        /\ last' = [Record(op, field, key, Surfaced(op, 400), c1)
                                       EXCEPT !.files = files,
                                              !.stored = saved.names]
                        /\ UNCHANGED <<now, job, loop>>
                   ELSE IF entity.images = None
                   \* None + list: TypeError, caught by "except Exception"
                   THEN /\ store' = st1
                        /\ last' = [Record(op, field, key, 500, c1)
                                       EXCEPT !.files = files,
                                              !.stored = saved.names]
                        /\ UNCHANGED <<now, job, loop>>
                   ELSE LET t == now + 1
                            images == MergeImages(entity.images[1], saved.names)
                            st2 == UpdateEq(st1, field, key, ImagesPayload(images, t))
                            data == SelectEq(st2, field, key)
                        IN  /\ t <= MaxClock
                            /\ now' = t
                            /\ store' = st2
                            /\ last' = [Record(op, field, key,
                                               IF data = <<>> THEN Surfaced(op, 500)
                                               ELSE 200, c1 + 1)
                                           EXCEPT !.files = files,
                                                  !.stored = saved.names,
                                                  !.result = <<entity.id>>]
                            /\ UNCHANGED <<job, loop>>

upload_images_by_id(id, files) ==
    LoopFree /\ UploadImages("upload_images_by_id", "id", id, files)

upload_images_by_place_id(p, files) ==
    LoopFree /\ UploadImages("upload_images_by_place_id", "place_id", p, files)

\* The same handler as the steps the event loop runs it in, one per call
\* that leaves the process (the store, the filesystem): between two of
\* them the worker threads run, and no other "async def" handler starts.
\* A handler in flight is [op, field, key, files, pc, entity, names].
Remove(s, i) == SubSeq(s, 1, i - 1) \o SubSeq(s, i + 1, Len(s))

\* select("*").eq(field, key), the 404, the 400 of a folder that cannot be
\* derived.
upload_read(op, field, key, files) ==
    LET sel == SelectEq(store, field, key)
    IN  /\ LoopFree
        /\ Len(loop) < MaxInFlight
        /\ UNCHANGED <<store, disk, now, job>>
        /\ IF sel = <<>>
           THEN /\ last' = [Record(op, field, key, Surfaced(op, 404), 1)
                               EXCEPT !.files = files]
                /\ UNCHANGED loop
           ELSE IF ~Truthy(sel[1].folder_name)
                   /\ (~Truthy(sel[1].name) \/ ~Truthy(sel[1].address))
           THEN /\ last' = [Record(op, field, key, Surfaced(op, 400), 1)
                               EXCEPT !.files = files]
                /\ UNCHANGED loop
           ELSE /\ loop' = Append(loop,
                                  [op |-> op, field |-> field, key |-> key,
                                   files |-> files,
                                   pc |-> IF Truthy(sel[1].folder_name)
                                          THEN "files" ELSE "folder",
                                   entity |-> sel[1], names |-> <<>>])
                /\ last' = [Record("upload_read", field, key, 0, 1)
                               EXCEPT !.files = files]

\* update({"folder_name": folder_name}); entity["folder_name"] = folder_name
upload_folder(i) ==
    LET h == loop[i]
    IN  /\ h.pc = "folder"
        /\ store' = UpdateEq(store, h.field, h.key, FolderPayload(h.entity))
        /\ loop' = [loop EXCEPT ![i].pc = "files",
                                ![i].entity.folder_name =
                                    FolderPayload(h.entity).folder_name]
        /\ last' = [Record("upload_folder", h.field, h.key, 0, 1)
                       EXCEPT !.files = h.files]
        /\ UNCHANGED <<disk, now, job>>

\* The loop over the files, and existing_images + uploaded_filenames.
upload_files(i) ==
    LET h == loop[i]
        folder == h.entity.folder_name[1]
        saved == SaveFiles(DirFiles(disk, folder), h.files, 1, <<>>)
    IN  /\ h.pc = "files"
        /\ Cardinality(disk) + Len(h.files) <= MaxDisk
        /\ disk' = disk \cup {[dir |-> folder, file |-> f] : f \in saved.dir}
        /\ UNCHANGED <<store, now, job>>
        /\ IF ~saved.ok \/ h.entity.images = None
           THEN /\ loop' = Remove(loop, i)
                /\ last' = [Record(h.op, h.field, h.key,
                                   IF ~saved.ok THEN Surfaced(h.op, 400) ELSE 500, 0)
                               EXCEPT !.files = h.files, !.stored = saved.names]
           ELSE /\ loop' = [loop EXCEPT ![i].pc = "persist",
                                        ![i].names = saved.names]
                /\ last' = [Record("upload_files", h.field, h.key, 0, 0)
                               EXCEPT !.files = h.files, !.stored = saved.names]

\* update(update_payload) with the merged images, and the response.
upload_persist(i) ==
    LET h == loop[i]
        t == now + 1
        images == MergeImages(h.entity.images[1], h.names)
        st == UpdateEq(store, h.field, h.key, ImagesPayload(images, t))
        data == SelectEq(st, h.field, h.key)
    IN  /\ h.pc = "persist"
        /\ t <= MaxClock
        /\ now' = t
        /\ store' = st
        /\ loop' = Remove(loop, i)
        /\ last' = [Record(h.op, h.field, h.key,
                           IF data = <<>> THEN Surfaced(h.op, 500) ELSE 200, 1)
                       EXCEPT !.files = h.files, !.stored = h.names,
                              !.result = [j \in DOMAIN data |-> data[j].id]]
        /\ UNCHANGED <<disk, job>>


\* ------------------------------------ GET /entities, /search-entities
\* Query(ge=1) on page and Query(ge=1, le=100) on take: a request outside
\* them is answered 422 by the framework and the handler is never called.
QueryValid(page, take) == page >= PageMin /\ take >= TakeMin /\ take <= TakeMax

\* .ilike("name", f"{q}%"): the name starts with q, letter case ignored.
ILikePrefix(row, q) ==
    /\ row.name # None
    /\ Len(row.name[1]) >= Len(q)
    /\ lower(SubSeq(row.name[1], 1, Len(q))) = lower(q)

\* not record.get("images") or len(record.get("images", [])) == 0
NoImages(row) == row.images = None \/ ImageSet(row.images[1]) = {}

\* The post-fetch pass over the page: checkimages True keeps the rows
\* without images, False the rows with images, None every row.
CheckImages(data, checkimages) ==
    IF checkimages = Some(TRUE) THEN SelectSeq(data, NoImages)
    ELSE IF checkimages = Some(FALSE) THEN SelectSeq(data, LAMBDA r : ~NoImages(r))
    ELSE data

NameQueries == {<<"j">>}
CheckImagesValues == {None, Some(TRUE), Some(FALSE)}

\* The fault of the post-fetch pass made a predicate of the query, ahead
\* of .range().
ListRowsFilterFirst(name, page, take, checkimages) ==
    LET matching == IF name # None /\ name[1] # <<>>
                    THEN SelectSeq(store, LAMBDA r : ILikePrefix(r, name[1]))
                    ELSE store
    IN  RangeRows(CheckImages(matching, checkimages),
                  WindowStart(page, take), WindowEnd(page, take))

\* The handler of both listings, created_from and created_to unset:
\* name is None (no name predicate) or Some(q).
ListRows(name, page, take, checkimages) ==
    LET matching == IF name # None /\ name[1] # <<>>
                    THEN SelectSeq(store, LAMBDA r : ILikePrefix(r, name[1]))
                    ELSE store
    IN  CheckImages(RangeRows(matching, WindowStart(page, take), WindowEnd(page, take)),
                    checkimages)

ListEntities(op, name, page, take, checkimages) ==
    /\ UNCHANGED <<store, disk, now, job, loop>>
    /\ IF ~QueryValid(page, take)
       THEN last' = [Record(op, "", 0, 422, 0)
                        EXCEPT !.page = page, !.take = take, !.name = name,
                               !.checkimages = checkimages]
       ELSE LET rows == ListRows(name, page, take, checkimages)
                \* response_model List[EntityDataResponse] for the search,
                \* List[EntityDataWithFolder] (all optional) for the listing
                ok == op = "get_all_entities"
                      \/ \A i \in DOMAIN rows : ResponseValid(rows[i])
            IN  last' = [Record(op, "", 0, IF ok THEN 200 ELSE 500, 1)
                            EXCEPT !.page = page, !.take = take, !.name = name,
                                   !.checkimages = checkimages,
                                   !.result = [i \in DOMAIN rows |-> rows[i].id]]

get_all_entities(name, page, take, checkimages) ==
    LoopFree /\ ListEntities("get_all_entities", name, page, take, checkimages)

search_entities(q, page, take, checkimages) ==
    ListEntities("search_entities", Some(q), page, take, checkimages)

\* ------------------------------------------------ GET /create-folders
\* The fault of a query without its folder_name predicate.
NullFolderRowsUnfiltered(st) == st

\* .select("*").is_("folder_name", "null")
NullFolderRows(st) == SelectSeq(st, LAMBDA r : r.folder_name = None)

\* The body of "for business in response.data" for one business: skipped
\* without name or address, else its folder_name is written to every row
\* with its place_id, and the updated row is appended to the response.
FoldersStep(st, business, out) ==
    IF ~Truthy(business.name) \/ ~Truthy(business.address)
    THEN [store |-> st, out |-> out, calls |-> 0]
    ELSE LET st2 == UpdateEq(st, "place_id", business.place_id, FolderPayload(business))
             data == SelectEq(st2, "place_id", business.place_id)
         IN  [store |-> st2,
              out |-> IF data # <<>> THEN Append(out, data[1].id) ELSE out,
              calls |-> 1]

RECURSIVE FoldersLoop(_, _, _, _, _)
FoldersLoop(st, data, k, out, calls) ==
    IF k > Len(data) THEN [store |-> st, out |-> out, calls |-> calls]
    ELSE LET step == FoldersStep(st, data[k], out)
         IN  FoldersLoop(step.store, data, k + 1, step.out, calls + step.calls)

\* One whole run of the job on table st: page and take are plain ints with
\* defaults, no bound is declared on them.
CreateFoldersRun(st, page, take) ==
    LET start == WindowStart(page, take)
        end == WindowEnd(page, take)
    IN  IF ~RangeAccepted(start, end)
        THEN [store |-> st, out |-> <<>>, calls |-> 1, status |-> 500]
        ELSE LET run == FoldersLoop(st, RangeRows(NullFolderRows(st), start, end),
                                    1, <<>>, 1)
             IN  [store |-> run.store, out |-> run.out, calls |-> run.calls,
                  status |-> 200]

create_folders(page, take) ==
    LET run == CreateFoldersRun(store, page, take)
    IN  /\ job.pc = "idle"
        /\ store' = run.store
        /\ last' = [Record("create_folders", "", 0, run.status, run.calls)
                       EXCEPT !.page = page, !.take = take, !.result = run.out]
        /\ UNCHANGED <<disk, now, job, loop>>

\* The same run as the steps of the worker thread that executes it (a plain
\* "def" handler runs in the thread pool, beside the event loop): the query,
\* one business per step, the return.
create_folders_query(page, take) ==
    LET start == WindowStart(page, take)
        end == WindowEnd(page, take)
        data == RangeRows(NullFolderRows(store), start, end)
    IN  /\ job.pc = "idle"
        /\ UNCHANGED <<store, disk, now, loop>>
        /\ IF ~RangeAccepted(start, end)
           THEN /\ job' = job
                /\ last' = [Record("create_folders", "", 0, 500, 1)
                               EXCEPT !.page = page, !.take = take]
           ELSE IF data = <<>>
           THEN /\ job' = job
                /\ last' = [Record("create_folders", "", 0, 200, 1)
                               EXCEPT !.page = page, !.take = take]
           ELSE /\ job' = [pc |-> "loop", page |-> page, take |-> take,
                           data |-> data, k |-> 1, out |-> <<>>]
                /\ last' = [Record("create_folders_query", "", 0, 0, 1)
                               EXCEPT !.page = page, !.take = take]

create_folders_step ==
    /\ job.pc = "loop"
    /\ job.k <= Len(job.data)
    /\ LET step == FoldersStep(store, job.data[job.k], job.out)
       IN  /\ store' = step.store
           /\ job' = [job EXCEPT !.k = job.k + 1, !.out = step.out]
           /\ last' = [Record("create_folders_step", "place_id",
                              job.data[job.k].place_id, 0, step.calls)
                          EXCEPT !.page = job.page, !.take = job.take]
    /\ UNCHANGED <<disk, now, loop>>

create_folders_return ==
    /\ job.pc = "loop"
    /\ job.k > Len(job.data)
    /\ job' = Idle
    /\ last' = [Record("create_folders", "", 0, 200, 0)
                   EXCEPT !.page = job.page, !.take = job.take, !.result = job.out]
    /\ UNCHANGED <<store, disk, now, loop>>

\* ------------------------------------------------------ specifications
CreateEntity == \E e \in CreateInputs : create_entity(e)
GetEntity == \E id \in Ids : get_entity(id)
UpdateById == \E id \in Ids, patch \in Patches : update_entity(id, patch)
UpdateByPlaceId == \E p \in PlaceIds, patch \in Patches : update_entity_by_place_id(p, patch)
UploadById == \E id \in Ids, files \in FileLists : upload_images_by_id(id, files)
UploadByPlaceId == \E p \in PlaceIds, files \in FileLists : upload_images_by_place_id(p, files)
GetAllEntities ==
    \E name \in {None}, page \in Pages, take \in Takes, c \in CheckImagesValues :
        get_all_entities(name, page, take, c)
SearchEntities ==
    \E q \in NameQueries, page \in Pages, take \in Takes, c \in CheckImagesValues :
        search_entities(q, page, take, c)
CreateFolders == \E page \in Pages, take \in Takes : create_folders(page, take)
CreateFoldersQuery == \E page \in Pages, take \in Takes : create_folders_query(page, take)

\* Every request handled to completion before the next one starts.
Next ==
    \/ CreateEntity
    \/ UpdateById
    \/ UpdateByPlaceId
    \/ UploadById
    \/ UploadByPlaceId
    \/ CreateFolders

Spec == Init /\ [][Next]_vars

\* The requests that read, over the tables that creations and the batch job
\* build.
NextRead ==
    \/ CreateEntity
    \/ GetEntity
    \/ GetAllEntities
    \/ SearchEntities
    \/ CreateFolders

SpecRead == Init /\ [][NextRead]_vars

\* The batch job in its worker thread, interleaved with the requests the
\* event loop handles one at a time (an "async def" handler without an
\* await runs to its end once started). Uploads carry one image here.
OneImage == {<<[filename |-> Photo, content_type |-> "image/png"]>>}
UploadOneById == \E id \in Ids, files \in OneImage : upload_images_by_id(id, files)
UploadOneByPlaceId ==
    \E p \in PlaceIds, files \in OneImage : upload_images_by_place_id(p, files)

NextConc ==
    \/ CreateEntity
    \/ UpdateById
    \/ UpdateByPlaceId
    \/ UploadOneById
    \/ UploadOneByPlaceId
    \/ CreateFoldersQuery
    \/ create_folders_step
    \/ create_folders_return

SpecConc == Init /\ [][NextConc]_vars

\* The uploads in the steps of the event loop, beside the batch job in its
\* worker thread. Uploads carry one file here.
OneFile == [1 .. 1 -> UploadFiles]
UploadReadById ==
    \E id \in Ids, files \in OneFile : upload_read("upload_images_by_id", "id", id, files)
UploadReadByPlaceId ==
    \E p \in PlaceIds, files \in OneFile :
        upload_read("upload_images_by_place_id", "place_id", p, files)
UploadStepFolder == \E i \in DOMAIN loop : upload_folder(i)
UploadStepFiles == \E i \in DOMAIN loop : upload_files(i)
UploadStepPersist == \E i \in DOMAIN loop : upload_persist(i)

NextLoop ==
    \/ CreateEntity
    \/ UploadReadById
    \/ UploadReadByPlaceId
    \/ UploadStepFolder
    \/ UploadStepFiles
    \/ UploadStepPersist
    \/ CreateFoldersQuery
    \/ create_folders_step
    \/ create_folders_return

SpecLoop == Init /\ [][NextLoop]_vars

\* The batch job run again and again with page 1 and one take, on a table
\* that creations built before its first run and nothing else changes
\* after it. The job is started (JobRan, again and again) and its runs
\* never cease: weak fairness on the steps, which after the first run are
\* the runs of the job alone. The history counts the runs modulo 2 (in
\* key), so that a run that changes no row is a step like any other.
CreateBefore == last.op \in {"init", "create_entity"} /\ CreateEntity

RepeatJob ==
    \E take \in 1 .. MaxTake :
        LET run == CreateFoldersRun(store, 1, take)
        IN  /\ job.pc = "idle"
            /\ last.op = "create_folders" => last.take = take
            /\ store' = run.store
            /\ last' = [Record("create_folders", "", 0, run.status, run.calls)
                           EXCEPT !.page = 1, !.take = take, !.result = run.out,
                                  !.key = IF last.op = "create_folders"
                                          THEN 1 - last.key ELSE 0]
            /\ UNCHANGED <<disk, now, job, loop>>

NextJob ==
    \/ CreateBefore
    \/ RepeatJob

JobRan == last.op = "create_folders"

SpecJob == Init /\ [][NextJob]_vars /\ WF_vars(NextJob) /\ []<>JobRan

\* The two listings over tables of rows with and without images, with and
\* without a rating.
CreateRated == \E e \in RatedInputs : create_entity(e)

NextList ==
    \/ CreateRated
    \/ GetAllEntities
    \/ SearchEntities

SpecList == Init /\ [][NextList]_vars


\* ------------------------------------------------------------- claims
UpdateOps == {"update_entity", "update_entity_by_place_id"}
UploadOps == {"upload_images_by_id", "upload_images_by_place_id"}
PagedOps == {"get_all_entities", "search_entities", "create_folders"}

\* The rows of table st that the last request addressed.
Addressed(st) == {i \in DOMAIN st : st[i][last.field] = last.key}

\* C1: a create whose insert the store accepted reports success (200) and
\* returns the stored row.
C1_AcceptedCreateSucceeds ==
    (last.op = "create_entity" /\ last.accepted)
        => (last.status = 200 /\ last.result # <<>>)

\* C2: a get by an id that matches no row ends NotFound (404).
C2_GetMissIsNotFound ==
    (last.op = "get_entity" /\ SelectEq(last.pre, "id", last.key) = <<>>)
        => last.status = 404

\* C3: a create with a place_id the table holds ends with a Conflict-class
\* status (409) and leaves the table, the first row with it, as it was.
C3_DuplicateIsConflict ==
    (last.op = "create_entity" /\ ~InsertAccepted(last.pre, [place_id |-> last.key]))
        => (last.status = 409 /\ store = last.pre)

\* C4: no derive-and-persist step (of an upload, or of the batch job in any
\* interleaving with updates and uploads) changes a folder_name that was
\* not null in the table just before the step.
C4_FolderNameNeverOverwritten ==
    (last.op \in UploadOps \cup {"create_folders_step"})
        => \A i \in DOMAIN last.pre :
              last.pre[i].folder_name # None
                  => store[i].folder_name = last.pre[i].folder_name

\* C5: in every reachable state no stored images list holds a filename twice.
C5_NoDuplicateImages ==
    \A i \in DOMAIN store :
        store[i].images # None => ~HasDuplicates(store[i].images[1])

\* The run of the batch job that would follow the last one, same arguments.
SecondRun == CreateFoldersRun(store, last.page, last.take)

\* C6 (as claimed): right after a run of the batch job, a second run with
\* the same arguments changes no row and returns no row.
C6_SecondRunChangesNothing ==
    last.op = "create_folders"
        => (SecondRun.store = store /\ SecondRun.out = <<>>)

\* C6 (amended): right after a run of the batch job, a second run with the
\* same arguments neither changes nor returns a row whose folder_name is
\* set (so none the first run assigned); and when the rows with a null
\* folder_name before the first run were at most take, the second run
\* changes no row and returns no row.
C6_SecondRunWithinTake ==
    last.op = "create_folders"
        => /\ \A i \in DOMAIN store :
                 store[i].folder_name # None
                     => /\ SecondRun.store[i] = store[i]
                        /\ store[i].id \notin SeqRange(SecondRun.out)
           /\ Len(NullFolderRows(last.pre)) <= last.take
                 => (SecondRun.store = store /\ SecondRun.out = <<>>)

\* A first run that assigned a folder_name with every null row inside its
\* window, and left a row without name or address for the second run to
\* read again.
C6_Witness ==
    /\ last.op = "create_folders"
    /\ last.result # <<>>
    /\ store # last.pre
    /\ Len(NullFolderRows(last.pre)) <= last.take
    /\ NullFolderRows(store) # <<>>

\* C7: an update of an existing entity sets exactly the fields its patch
\* holds, keeps every other field (images and folder_name with them) and
\* every other row, and makes updated_at strictly greater.
C7_UpdateFrame ==
    (last.op \in UpdateOps /\ Addressed(last.pre) # {})
        => /\ DOMAIN store = DOMAIN last.pre
           /\ \A i \in DOMAIN store :
                 IF i \in Addressed(last.pre)
                 THEN /\ \A f \in PatchFields :
                            store[i][f] = IF last.patch[f] # None
                                          THEN last.patch[f]
                                          ELSE last.pre[i][f]
                      /\ store[i].id = last.pre[i].id
                      /\ store[i].place_id = last.pre[i].place_id
                      /\ store[i].created_at = last.pre[i].created_at
                      /\ store[i].updated_at > last.pre[i].updated_at
                 ELSE store[i] = last.pre[i]

\* An update of rating alone on an entity that has images and a folder_name.
C7_Witness ==
    /\ last.op \in UpdateOps
    /\ last.patch = [NoPatch EXCEPT !.rating = Some(4)]
    /\ \E i \in Addressed(last.pre) :
          /\ last.pre[i].rating = None
          /\ store[i].rating = Some(4)
          /\ ImageSet(store[i].images[1]) # {}
          /\ store[i].folder_name # None

\* The k-th candidate name of a file: name_k.
Suffixed(filename, k) == [stem |-> filename.stem, sfx |-> filename.sfx \o <<k>>]

\* C8: a successful upload stores each file under a name that was not in
\* the entity's directory just before the write (the original name if free,
\* else the first free one of name_1, name_2, ...), writes nothing else,
\* and leaves images holding what it held before and every name stored,
\* each once.
C8_UploadKeepsFilesAndImages ==
    (last.op \in UploadOps /\ last.status = 200)
        => \A i \in Addressed(last.pre) :
              LET folder == store[i].folder_name[1]
                  before == DirFiles(last.preDisk, folder)
                  names == last.stored
                  Dir(k) == before \cup {names[j] : j \in 1 .. (k - 1)}
              IN  /\ Len(names) = Len(last.files)
                  /\ \A k \in DOMAIN names :
                        LET fn == last.files[k].filename
                        IN  /\ names[k] \notin Dir(k)
                            /\ \/ names[k] = fn
                               \/ /\ fn \in Dir(k)
                                  /\ \E n \in 1 .. (Cardinality(Dir(k)) + 1) :
                                        /\ names[k] = Suffixed(fn, n)
                                        /\ \A m \in 1 .. (n - 1) :
                                              Suffixed(fn, m) \in Dir(k)
                  /\ last.preDisk \subseteq disk
                  /\ disk \ last.preDisk
                        = {[dir |-> folder, file |-> f] : f \in SeqRange(names)}
                  /\ ImageSet(store[i].images[1])
                        = ImageSet(last.pre[i].images[1]) \cup SeqRange(names)
                  /\ ~HasDuplicates(store[i].images[1])

\* photo.jpg uploaded again: stored as photo_1.jpg, and images holds both.
C8_Witness ==
    /\ last.op \in UploadOps
    /\ last.status = 200
    /\ \E k \in DOMAIN last.stored :
          /\ last.files[k].filename = Photo
          /\ last.stored[k] = Suffixed(Photo, 1)
    /\ \E i \in Addressed(last.pre) :
          /\ Photo \in ImageSet(last.pre[i].images[1])
          /\ {Photo, Suffixed(Photo, 1)} \subseteq ImageSet(store[i].images[1])

\* C9: a paginated request with page < 1 or take outside [1, 100] ends with
\* a client-input status and issues no call to the store.
C9_OutOfRangeRejected ==
    (last.op \in PagedOps /\ ~QueryValid(last.page, last.take))
        => (last.status \in {400, 422} /\ last.calls = 0)

\* C10: a request that changes a stored row (an update, an upload, a run of
\* the batch job) refreshes that row's updated_at, and no request changes a
\* row's created_at.
C10_MutationRefreshesUpdatedAt ==
    \A i \in DOMAIN last.pre :
        /\ store[i].created_at = last.pre[i].created_at
        /\ (last.op \in UpdateOps \cup UploadOps \cup {"create_folders"}
               /\ store[i] # last.pre[i])
              => store[i].updated_at > last.pre[i].updated_at

ListOps == {"get_all_entities", "search_entities"}

\* The rows of table st that a listing's query matches, in table order.
Matching(st, name) ==
    IF name = None THEN st ELSE SelectSeq(st, LAMBDA r : ILikePrefix(r, name[1]))

\* The positions (from 1) of the window of page and take: offsets
\* (page - 1) * take to (page - 1) * take + take - 1.
Window(page, take) == ((page - 1) * take + 1) .. ((page - 1) * take + take)

\* C11: a listing or a search that is answered returns exactly the rows of
\* its window (the matching rows at offsets (page-1)*take to that + take - 1,
\* as fetched) whose images are empty or null with checkimages true, whose
\* images are non-empty with checkimages false, and the whole window with
\* checkimages unset: the filter never looks outside the window.
C11_FilterAfterPagination ==
    (last.op \in ListOps /\ last.status = 200)
        => LET m == Matching(last.pre, last.name)
               w == DOMAIN m \cap Window(last.page, last.take)
               kept == {i \in w :
                           \/ last.checkimages = None
                           \/ /\ last.checkimages = Some(TRUE)
                              /\ (m[i].images = None \/ DOMAIN m[i].images[1] = {})
                           \/ /\ last.checkimages = Some(FALSE)
                              /\ m[i].images # None
                              /\ DOMAIN m[i].images[1] # {}}
           IN  /\ SeqRange(last.result) = {m[i].id : i \in kept}
               /\ Len(last.result) = Cardinality(kept)

\* A search with checkimages true answered with fewer than take rows (its
\* window holds a row with images) while a matching row without images
\* lies outside the window.
C11_Witness ==
    /\ last.op = "search_entities"
    /\ last.status = 200
    /\ last.checkimages = Some(TRUE)
    /\ Len(last.result) < last.take
    /\ LET m == Matching(last.pre, last.name)
       IN  /\ \E i \in DOMAIN m \cap Window(last.page, last.take) :
                 ~NoImages(m[i])
           /\ \E i \in DOMAIN m \ Window(last.page, last.take) : NoImages(m[i])

\* The positions of the files of the last request that are no images.
NotImages == {k \in DOMAIN last.files : ~IsImage(last.files[k].content_type)}

\* The first of them: the file the validation fails at.
FirstNotImage == CHOOSE k \in NotImages : \A j \in NotImages : k <= j

\* The upload reached its loop over the files: the entity was found, and it
\* had a folder_name or the name and address to derive one.
ReachedFiles(row) ==
    Truthy(row.folder_name) \/ (Truthy(row.name) /\ Truthy(row.address))

\* C12: an upload whose file k is the first that is no image ends with a
\* client-input status (400); files 1..k-1 of the call are on disk, each
\* under a name of its own that was free, nothing else was written (none
\* of files k..n), and the entity's images and uploaded_image in the table
\* are what they were before the call.
C12_FailedUploadKeepsWrittenFiles ==
    (last.op \in UploadOps /\ NotImages # {})
        => \A i \in Addressed(last.pre) :
              ReachedFiles(last.pre[i])
                  => LET k == FirstNotImage
                         folder == store[i].folder_name[1]
                         written == {[dir |-> folder, file |-> last.stored[j]] :
                                        j \in DOMAIN last.stored}
                     IN  /\ last.status = 400
                         /\ Len(last.stored) = k - 1
                         /\ \A j \in DOMAIN last.stored :
                               last.stored[j].stem = last.files[j].filename.stem
                         /\ Cardinality(written) = k - 1
                         /\ written \cap last.preDisk = {}
                         /\ disk = last.preDisk \cup written
                         /\ store[i].images = last.pre[i].images
                         /\ store[i].uploaded_image = last.pre[i].uploaded_image

\* An upload of an image and then a file that is no image: 400, the image
\* written, the entity's images without it.
C12_Witness ==
    /\ last.op \in UploadOps
    /\ last.status = 400
    /\ NotImages # {}
    /\ FirstNotImage = 2
    /\ Len(last.stored) = 1
    /\ \E i \in Addressed(last.pre) :
          /\ [dir |-> store[i].folder_name[1], file |-> last.stored[1]]
                \in disk \ last.preDisk
          /\ last.stored[1] \notin ImageSet(store[i].images[1])
          /\ store[i].uploaded_image = Some(FALSE)

\* The uploads in flight that have read their entity and not yet persisted
\* their patch.
ReadNotPersisted == {i \in DOMAIN loop : loop[i].pc \in {"folder", "files", "persist"}}

Eligible(row) == Truthy(row.name) /\ Truthy(row.address)

\* C14: with the batch job run again and again (page 1, one take, nothing
\* else changing the table), from some run on every entity that has a name
\* and an address has a folder_name, however many entities without a name
\* or an address have none.
C14_EligibleEventuallyAssigned ==
    <>[](\A i \in DOMAIN store :
            Eligible(store[i]) => store[i].folder_name # None)

====
